---- MODULE Spec2Model ----
(***************************************************************************)
(* A model of piped_processt (src/util/piped_process.cpp): a channel to a  *)
(* child process over two pipes, on its POSIX and its _WIN32 branch.       *)
(* The parent (the caller of the channel) and the child run concurrently;  *)
(* a call that can block (poll, ReadFile, Sleep) is split at the place     *)
(* where it blocks, every other handler is one step.                       *)
(***************************************************************************)
EXTENDS Integers, Sequences, FiniteSets, TLC

VARIABLES
  platform,        \* "posix" or "win32": which #ifdef branch was compiled
  commandvec,      \* the constructor's argument
  pc,              \* where the caller is: start, idle, poll, read, sleep, ...
  op,              \* the public operation in progress ("none" when idle)
  process_state,   \* statet
  pid,             \* the value fork() returned (POSIX)
  child,           \* "none", "running", "exited"
  handles,         \* pipe ends and process handles open in the parent
  command_stream,  \* bytes held in the stdio buffer of command_stream
  to_child,        \* every byte the outbound pipe accepted, in order
  sent_ok,         \* the messages for which send returned SUCCEEDED, concatenated
  nsends,          \* number of send calls made
  from_child,      \* every byte the child wrote to its stdout/stderr, in order
  pipe_output,     \* bytes buffered in the inbound pipe, not yet read
  received,        \* the results of all completed receive calls, concatenated
  response,        \* receive's local accumulator
  nbytes,          \* receive's local: what the last read reported
  timeout,         \* can_receive's local int
  waited_time,     \* time elapsed inside the current can_receive
  ret,             \* what the last completed public call returned
  sigterm          \* <<p>> once teardown has called kill(p, SIGTERM), else <<>>

vars == <<platform, commandvec, pc, op, process_state, pid, child, handles,
          command_stream, to_child, sent_ok, nsends, from_child, pipe_output,
          received, response, nbytes, timeout, waited_time, ret, sigterm>>

----------------------------------------------------------------------------
\* Bounds of the model.
MaxOut == 3          \* bytes the child writes in a run
MaxSends == 2        \* send calls in a run
MaxWaited == 20      \* time units tracked inside one can_receive

\* Program constants. BUFSIZE is 2048 in the source; the model scales the
\* chunk size down so that a drain needs several reads.
BUFSIZE == 2
WIN_POLL_WAIT == 10
\* Capacity of the stdio buffer behind command_stream (libc's BUFSIZ, scaled).
StdioBufSize == 2
\* Width of int (scaled): timeout is an int assigned from a std::size_t.
IntBits == 4

NOT_CREATED == "NOT_CREATED"
CREATED == "CREATED"
STOPPED == "STOPPED"
ERRORED == "ERRORED"
statet == {NOT_CREATED, CREATED, STOPPED, ERRORED}

SUCCEEDED == "SUCCEEDED"
FAILED == "FAILED"
send_responset == {SUCCEEDED, FAILED, ERRORED}

\* optionalt<std::size_t>: <<>> holds no value, <<v>> holds v.
PIPED_PROCESS_INFINITE_TIMEOUT == <<>>

\* Inputs.
Commands == {<<>>, <<"cat">>}
\* 0 is the NUL byte; a std::string may hold it.
Messages == {<<1>>, <<1, 0, 1>>, <<1, 1, 1>>}
\* std::size_t arguments of can_receive; the last one does not fit an int.
WaitTimes == {0, 1, 2^IntBits - 1}
OptWaitTimes ==
  {<<v>> : v \in WaitTimes} \cup {PIPED_PROCESS_INFINITE_TIMEOUT}
ForkResults == {-1, 7}

\* What the child writes to its stderr (the inbound pipe) when execvp fails.
LaunchFailedMsg == <<0>>

Min(a, b) == IF a < b THEN a ELSE b

NoRet == [op |-> "none", status |-> "none", flag |-> FALSE, bytes |-> <<>>]

----------------------------------------------------------------------------
\* The peer ends of the two pipes. The parent closes its copies of the
\* child's ends in the constructor, so the child's ends are the only ones.
ReaderOpen == child = "running"   \* someone holds the read end of pipe_input
WriterOpen == child = "running"   \* someone holds the write end of pipe_output

Init ==
  /\ platform \in {"posix", "win32"}
  /\ commandvec \in Commands
  /\ pc = "start"
  /\ op = "none"
  /\ process_state = NOT_CREATED
  /\ pid = 0
  /\ child = "none"
  /\ handles = {}
  /\ command_stream = <<>>
  /\ to_child = <<>>
  /\ sent_ok = <<>>
  /\ nsends = 0
  /\ from_child = <<>>
  /\ pipe_output = <<>>
  /\ received = <<>>
  /\ response = <<>>
  /\ nbytes = 0
  /\ timeout = 0
  /\ waited_time = 0
  /\ ret = NoRet
  /\ sigterm = <<>>

----------------------------------------------------------------------------
\* Constructor.

\* throw std::runtime_error(...): no object results; `open` are the pipe
\* ends created so far, which nothing closes.
Throw(open) ==
  /\ pc' = "thrown"
  /\ handles' = open
  /\ ret' = [NoRet EXCEPT !.op = "piped_processt", !.status = "runtime_error"]
  /\ UNCHANGED <<process_state, pid, child, from_child, pipe_output>>

\* The constructor ran to its last line.
Constructed(newpid, newchild, open, out) ==
  /\ pc' = "idle"
  /\ process_state' = CREATED
  /\ pid' = newpid
  /\ child' = newchild
  /\ handles' = open
  /\ from_child' = out
  /\ pipe_output' = out
  /\ ret' = [NoRet EXCEPT !.op = "piped_processt", !.status = "returned"]

\* What becomes of the forked child: execvp succeeds ("running"), execvp
\* fails and the child reports it and aborts ("launch_failed"), or the
\* child dies silently ("crashed": commandvec[0] of an empty vector and
\* args[commandvec.size()] = NULL are undefined behaviour).
ExecOutcomes ==
  IF commandvec = <<>> THEN {"launch_failed", "crashed"}
  ELSE {"running", "launch_failed", "crashed"}

ctor_posix ==
  \E pipe1, pipe2, nonblock \in BOOLEAN, f \in ForkResults, ex \in ExecOutcomes :
    IF ~pipe1 THEN Throw({})
    ELSE IF ~pipe2 THEN Throw({"pipe_input[0]", "pipe_input[1]"})
    ELSE IF ~nonblock
      THEN Throw({"pipe_input[0]", "pipe_input[1]",
                  "pipe_output[0]", "pipe_output[1]"})
    ELSE IF f = -1
      THEN Constructed(f, "none", {"pipe_input[1]", "pipe_output[0]"}, <<>>)
    ELSE Constructed(f,
                     IF ex = "running" THEN "running" ELSE "exited",
                     {"pipe_input[1]", "pipe_output[0]"},
                     IF ex = "launch_failed" THEN LaunchFailedMsg ELSE <<>>)

\* _tcscpy copies cmdline.size() + 1 characters into cmdline.size(): the
\* build either survives the overflow or dies of it.
ctor_win32 ==
  \E out_pipe, out_info, in_pipe, in_info, success, survives \in BOOLEAN :
    IF ~out_pipe THEN Throw({})
    ELSE IF ~out_info THEN Throw({"child_std_OUT_Rd", "child_std_OUT_Wr"})
    ELSE IF ~in_pipe THEN Throw({"child_std_OUT_Rd", "child_std_OUT_Wr"})
    ELSE IF ~in_info
      THEN Throw({"child_std_OUT_Rd", "child_std_OUT_Wr",
                  "child_std_IN_Rd", "child_std_IN_Wr"})
    ELSE IF ~survives
      THEN /\ pc' = "crashed"
           /\ handles' = {"child_std_OUT_Rd", "child_std_OUT_Wr",
                          "child_std_IN_Rd", "child_std_IN_Wr"}
           /\ ret' = [NoRet EXCEPT !.op = "piped_processt", !.status = "crashed"]
           /\ UNCHANGED <<process_state, pid, child, from_child, pipe_output>>
    ELSE IF success /\ commandvec # <<>>
      THEN Constructed(pid, "running",
                       {"child_std_OUT_Rd", "child_std_IN_Wr",
                        "hProcess", "hThread"}, <<>>)
    ELSE Constructed(pid, "none", {"child_std_OUT_Rd", "child_std_IN_Wr"}, <<>>)

piped_processt ==
  /\ pc = "start"
  /\ IF platform = "win32" THEN ctor_win32 ELSE ctor_posix
  /\ UNCHANGED <<platform, commandvec, op, command_stream, to_child, sent_ok,
                 nsends, received, response, timeout, waited_time, sigterm, nbytes>>

----------------------------------------------------------------------------
\* The child process: it writes to its stdout/stderr and it exits.

\* The parent never looks at the bytes it reads, so the child writes
\* pairwise different bytes: a lost, repeated or reordered one shows.
NextChildByte == Len(from_child) + 1

ChildWrite ==
  /\ child = "running"
  /\ Len(from_child) < MaxOut
  /\ LET b == NextChildByte
     IN /\ from_child' = Append(from_child, b)
        /\ pipe_output' = Append(pipe_output, b)
  /\ UNCHANGED <<platform, commandvec, pc, op, process_state, pid, child,
                 handles, command_stream, to_child, sent_ok, nsends, received,
                 response, timeout, waited_time, ret, sigterm, nbytes>>

ChildExit ==
  /\ child = "running"
  /\ child' = "exited"
  /\ UNCHANGED <<platform, commandvec, pc, op, process_state, pid, handles,
                 command_stream, to_child, sent_ok, nsends, from_child,
                 pipe_output, received, response, timeout, waited_time, ret,
                 sigterm, nbytes>>

----------------------------------------------------------------------------
\* send

\* message.c_str() read as a C string: the bytes before the first NUL.
RECURSIVE c_str(_)
c_str(message) ==
  IF message = <<>> \/ Head(message) = 0 THEN <<>>
  ELSE <<Head(message)>> \o c_str(Tail(message))

\* fputs(s, command_stream): s fits the stdio buffer, or the stream has to
\* write to the pipe, which fails (EOF) when nobody holds the read end.
fputs_status(s) ==
  IF Len(command_stream) + Len(s) <= StdioBufSize \/ ReaderOpen
  THEN "ok" ELSE "EOF"

send_posix(message) ==
  LET s == c_str(message)
      buffered == command_stream \o s
      send_status == fputs_status(s)
  IN /\ IF ReaderOpen
          THEN \* fputs and fflush push everything into the pipe
               /\ to_child' = to_child \o buffered
               /\ command_stream' = <<>>
          ELSE \* every write fails; what the stream keeps of its buffer
               \* after a failed flush is up to the C library
               /\ to_child' = to_child
               /\ \E keep \in BOOLEAN :
                    command_stream' =
                      IF keep
                      THEN SubSeq(buffered, 1, Min(Len(buffered), StdioBufSize))
                      ELSE <<>>
     /\ LET status == IF send_status = "EOF" THEN FAILED ELSE SUCCEEDED
        IN /\ ret' = [op |-> "send", status |-> status, flag |-> TRUE,
                      bytes |-> message]
           /\ sent_ok' = IF status = SUCCEEDED THEN sent_ok \o message
                         ELSE sent_ok

send_win32(message) ==
  /\ command_stream' = command_stream
  /\ IF ReaderOpen
       THEN /\ to_child' = to_child \o message
            /\ ret' = [op |-> "send", status |-> SUCCEEDED, flag |-> TRUE,
                       bytes |-> message]
            /\ sent_ok' = sent_ok \o message
       ELSE /\ to_child' = to_child
            /\ ret' = [op |-> "send", status |-> FAILED, flag |-> TRUE,
                       bytes |-> message]
            /\ sent_ok' = sent_ok

\* send with a slip: the test of process_state is missing.
send_unguarded(message) ==
  /\ pc = "idle"
  /\ nsends < MaxSends
  /\ nsends' = nsends + 1
  /\ IF platform = "win32" THEN send_win32(message) ELSE send_posix(message)
  /\ UNCHANGED <<platform, commandvec, pc, op, process_state, pid, child,
                 handles, from_child, pipe_output, received, response,
                 timeout, waited_time, sigterm, nbytes>>

send(message) ==
  /\ pc = "idle"
  /\ nsends < MaxSends
  /\ nsends' = nsends + 1
  /\ IF process_state # CREATED
       THEN /\ ret' = [op |-> "send", status |-> ERRORED, flag |-> FALSE,
                       bytes |-> message]
            /\ UNCHANGED <<command_stream, to_child, sent_ok>>
       ELSE IF platform = "win32" THEN send_win32(message)
            ELSE send_posix(message)
  /\ UNCHANGED <<platform, commandvec, pc, op, process_state, pid, child,
                 handles, from_child, pipe_output, received, response,
                 timeout, waited_time, sigterm, nbytes>>

----------------------------------------------------------------------------
\* receive

\* INVARIANT(cond, msg) with cond false: the violation is reported and the
\* call does not continue (invariant.h).
invariant_violation ==
  /\ pc' = "aborted"
  /\ ret' = [NoRet EXCEPT !.op = op', !.status = "invariant_violation"]
  /\ UNCHANGED response

\* receive_enter with a slip: the INVARIANT is missing.
receive_enter_unchecked(st) ==
  /\ pc' = "read"
  /\ response' = <<>>
  /\ ret' = ret

\* The first lines of receive(), reached with process_state = st.
receive_enter(st) ==
  IF st # CREATED THEN invariant_violation
  ELSE /\ pc' = "read"
       /\ response' = <<>>
       /\ ret' = ret

receive ==
  /\ pc = "idle"
  /\ op' = "receive"
  /\ receive_enter(process_state)
  /\ UNCHANGED <<platform, commandvec, process_state, pid, child, handles,
                 command_stream, to_child, sent_ok, nsends, from_child,
                 pipe_output, received, timeout, waited_time, sigterm, nbytes>>

\* One read(pipe_output[0], buff, BUFSIZE) / ReadFile(child_std_OUT_Rd, ...):
\* the number of bytes it reports. POSIX: 0 at end of stream, -1 when
\* nothing can be read now. _WIN32: ReadFile zeroes nbytes and fails when
\* the pipe is broken.
read_nbytes ==
  IF pipe_output # <<>> THEN Min(BUFSIZE, Len(pipe_output))
  ELSE IF platform = "posix" /\ WriterOpen THEN -1
  ELSE 0

\* success: ReadFile's result, or nbytes > 0.
read_success == pipe_output # <<>>

\* ReadFile on the synchronous pipe waits while the pipe is empty and a
\* writer holds it; read on the O_NONBLOCK descriptor never waits.
read_blocks ==
  platform = "win32" /\ pipe_output = <<>> /\ WriterOpen

\* receive_read with a slip: a chunk shorter than the buffer is read but
\* not appended.
receive_read_drops_short ==
  /\ pc = "read"
  /\ ~read_blocks
  /\ read_success
  /\ nbytes' = read_nbytes
  /\ response' = IF read_nbytes < BUFSIZE THEN response
                 ELSE response \o SubSeq(pipe_output, 1, read_nbytes)
  /\ pipe_output' = SubSeq(pipe_output, read_nbytes + 1, Len(pipe_output))
  /\ UNCHANGED <<platform, commandvec, pc, op, process_state, pid, child,
                 handles, command_stream, to_child, sent_ok, nsends,
                 from_child, received, timeout, waited_time, ret, sigterm>>

\* A round of the loop that read something: append and go round again.
receive_read ==
  /\ pc = "read"
  /\ ~read_blocks
  /\ read_success
  /\ nbytes' = read_nbytes
  /\ response' = response \o SubSeq(pipe_output, 1, read_nbytes)
  /\ pipe_output' = SubSeq(pipe_output, read_nbytes + 1, Len(pipe_output))
  /\ UNCHANGED <<platform, commandvec, pc, op, process_state, pid, child,
                 handles, command_stream, to_child, sent_ok, nsends,
                 from_child, received, timeout, waited_time, ret, sigterm>>

\* receive_return as the commented-out draft has it: end of stream (read
\* returned 0) sets STOPPED.
receive_return_stops ==
  /\ pc = "read"
  /\ ~read_blocks
  /\ ~read_success
  /\ nbytes' = read_nbytes
  /\ pc' = "idle"
  /\ op' = "none"
  /\ ret' = [NoRet EXCEPT !.op = op, !.status = "returned", !.bytes = response]
  /\ received' = received \o response
  /\ response' = <<>>
  /\ process_state' = IF read_nbytes = 0 THEN STOPPED ELSE process_state
  /\ UNCHANGED <<platform, commandvec, pid, child, handles,
                 command_stream, to_child, sent_ok, nsends, from_child,
                 pipe_output, timeout, waited_time, sigterm>>

\* The loop's last round (success = false) and return response.
receive_return ==
  /\ pc = "read"
  /\ ~read_blocks
  /\ ~read_success
  /\ nbytes' = read_nbytes
  /\ pc' = "idle"
  /\ op' = "none"
  /\ ret' = [NoRet EXCEPT !.op = op, !.status = "returned", !.bytes = response]
  /\ received' = received \o response
  /\ response' = <<>>
  /\ UNCHANGED <<platform, commandvec, process_state, pid, child, handles,
                 command_stream, to_child, sent_ok, nsends, from_child,
                 pipe_output, timeout, waited_time, sigterm>>

----------------------------------------------------------------------------
\* can_receive, wait_receive, wait_receivable

\* int timeout = wait_time.value(): the std::size_t narrowed to an int.
ToInt(v) ==
  LET m == v % (2^IntBits)
  IN IF m >= 2^(IntBits - 1) THEN m - 2^IntBits ELSE m

\* unwrap with a slip: no value means a timeout of 0, not -1.
unwrap_zero(wait_time) ==
  IF wait_time # <<>> THEN ToInt(wait_time[1]) ELSE 0

\* Lines 339-348: unwrap the optional argument.
unwrap(wait_time) ==
  IF wait_time # <<>> THEN ToInt(wait_time[1]) ELSE -1

\* The steps of can_receive(wait_time) up to the first wait.
can_receive_enter(wait_time) ==
  /\ pc' = "poll"
  /\ timeout' = unwrap(wait_time)
  /\ waited_time' = 0

\* can_receive returns r to whoever called it, with process_state = st:
\* the caller of the channel, wait_receive (which goes on to receive()),
\* or wait_receivable's loop (which sleeps and tests again).
can_receive_return(r, st) ==
  /\ process_state' = st
  /\ CASE op = "wait_receive" ->
            /\ op' = op
            /\ receive_enter(st)
       [] op = "wait_receivable" ->
            /\ response' = response
            /\ IF r
                 THEN /\ pc' = "idle"
                      /\ op' = "none"
                      /\ ret' = [NoRet EXCEPT !.op = "wait_receivable",
                                              !.status = "returned"]
                 ELSE /\ pc' = "sleep"
                      /\ op' = op
                      /\ ret' = ret
       [] OTHER ->
            /\ response' = response
            /\ pc' = "idle"
            /\ op' = "none"
            /\ ret' = [NoRet EXCEPT !.op = op, !.status = "returned",
                                    !.flag = r]

can_receive(wait_time) ==
  /\ pc = "idle"
  /\ op' = "can_receive"
  /\ can_receive_enter(wait_time)
  /\ UNCHANGED <<platform, commandvec, process_state, pid, child, handles,
                 command_stream, to_child, sent_ok, nsends, from_child,
                 pipe_output, received, response, ret, sigterm, nbytes>>

\* bool can_receive(): return can_receive(0).
can_receive_now ==
  /\ pc = "idle"
  /\ op' = "can_receive()"
  /\ can_receive_enter(<<0>>)
  /\ UNCHANGED <<platform, commandvec, process_state, pid, child, handles,
                 command_stream, to_child, sent_ok, nsends, from_child,
                 pipe_output, received, response, ret, sigterm, nbytes>>

wait_receive ==
  /\ pc = "idle"
  /\ op' = "wait_receive"
  /\ can_receive_enter(PIPED_PROCESS_INFINITE_TIMEOUT)
  /\ UNCHANGED <<platform, commandvec, process_state, pid, child, handles,
                 command_stream, to_child, sent_ok, nsends, from_child,
                 pipe_output, received, response, ret, sigterm, nbytes>>

\* poll() has something to report for pipe_output[0]: POLLIN when bytes
\* are buffered, POLLHUP when no writer is left.
poll_ready == pipe_output # <<>> \/ ~WriterOpen
POLLIN_set == pipe_output # <<>>

\* poll_events with a slip: a poll that succeeds marks the channel usable.
poll_events_resets ==
  /\ pc = "poll" /\ platform = "posix"
  /\ poll_ready
  /\ can_receive_return(POLLIN_set, CREATED)
  /\ UNCHANGED <<platform, commandvec, pid, child, handles, command_stream,
                 to_child, sent_ok, nsends, from_child, pipe_output, received,
                 timeout, waited_time, sigterm, nbytes>>

\* case default: poll found events; true iff revents has POLLIN.
poll_events ==
  /\ pc = "poll" /\ platform = "posix"
  /\ poll_ready
  /\ can_receive_return(POLLIN_set, process_state)
  /\ UNCHANGED <<platform, commandvec, pid, child, handles, command_stream,
                 to_child, sent_ok, nsends, from_child, pipe_output, received,
                 timeout, waited_time, sigterm, nbytes>>

\* case 0: the timeout ran out with nothing to report.
poll_timeout ==
  /\ pc = "poll" /\ platform = "posix"
  /\ ~poll_ready
  /\ timeout >= 0 /\ waited_time >= timeout
  /\ can_receive_return(FALSE, process_state)
  /\ UNCHANGED <<platform, commandvec, pid, child, handles, command_stream,
                 to_child, sent_ok, nsends, from_child, pipe_output, received,
                 timeout, waited_time, sigterm, nbytes>>

\* poll_error with a slip: the assignment of ERRORED is missing.
poll_error_keeps_state ==
  /\ pc = "poll" /\ platform = "posix"
  /\ can_receive_return(FALSE, process_state)
  /\ UNCHANGED <<platform, commandvec, pid, child, handles, command_stream,
                 to_child, sent_ok, nsends, from_child, pipe_output, received,
                 timeout, waited_time, sigterm, nbytes>>

\* case -1: poll failed (EINTR, ENOMEM, ...).
poll_error ==
  /\ pc = "poll" /\ platform = "posix"
  /\ can_receive_return(FALSE, ERRORED)
  /\ UNCHANGED <<platform, commandvec, pid, child, handles, command_stream,
                 to_child, sent_ok, nsends, from_child, pipe_output, received,
                 timeout, waited_time, sigterm, nbytes>>

\* Time passes while poll() waits out a finite timeout (an unbounded wait
\* has nothing to count: it stays in poll until another step ends it).
poll_wait ==
  /\ pc = "poll" /\ platform = "posix"
  /\ ~poll_ready
  /\ timeout >= 0 /\ waited_time < timeout
  /\ waited_time < MaxWaited
  /\ waited_time' = waited_time + 1
  /\ UNCHANGED <<platform, commandvec, pc, op, process_state, pid, child,
                 handles, command_stream, to_child, sent_ok, nsends,
                 from_child, pipe_output, received, response, timeout, ret,
                 sigterm, nbytes>>

\* while(timeout < 0 || waited_time >= timeout)
win_loop_cond == timeout < 0 \/ waited_time >= timeout

\* PeekNamedPipe(child_std_OUT_Rd, NULL, 0, NULL, NULL, NULL) asks for
\* nothing and succeeds whenever the pipe is not broken, with or without
\* bytes in it; a pipe whose writer is gone breaks once it is drained.
PeekNamedPipe == WriterOpen \/ pipe_output # <<>>

win_peek_true ==
  /\ pc = "poll" /\ platform = "win32"
  /\ win_loop_cond
  /\ PeekNamedPipe
  /\ can_receive_return(TRUE, process_state)
  /\ UNCHANGED <<platform, commandvec, pid, child, handles, command_stream,
                 to_child, sent_ok, nsends, from_child, pipe_output, received,
                 timeout, waited_time, sigterm, nbytes>>

\* Sleep(WIN_POLL_WAIT); waited_time += WIN_POLL_WAIT;
win_sleep ==
  /\ pc = "poll" /\ platform = "win32"
  /\ win_loop_cond
  /\ ~PeekNamedPipe
  /\ waited_time + WIN_POLL_WAIT <= MaxWaited
  /\ waited_time' = waited_time + WIN_POLL_WAIT
  /\ UNCHANGED <<platform, commandvec, pc, op, process_state, pid, child,
                 handles, command_stream, to_child, sent_ok, nsends,
                 from_child, pipe_output, received, response, timeout, ret,
                 sigterm, nbytes>>

\* The loop is not entered, or left: return false.
win_loop_exit ==
  /\ pc = "poll" /\ platform = "win32"
  /\ ~win_loop_cond
  /\ can_receive_return(FALSE, process_state)
  /\ UNCHANGED <<platform, commandvec, pid, child, handles, command_stream,
                 to_child, sent_ok, nsends, from_child, pipe_output, received,
                 timeout, waited_time, sigterm, nbytes>>

\* while(process_state == statet::CREATED && !can_receive(0)): the test of
\* the first conjunct, and the call in the second.
wait_receivable_test ==
  IF process_state # CREATED
  THEN /\ pc' = "idle"
       /\ op' = "none"
       /\ ret' = [NoRet EXCEPT !.op = "wait_receivable", !.status = "returned"]
       /\ UNCHANGED <<timeout, waited_time>>
  ELSE /\ op' = "wait_receivable"
       /\ can_receive_enter(<<0>>)
       /\ ret' = ret

wait_receivable ==
  /\ pc = "idle"
  /\ wait_receivable_test
  /\ UNCHANGED <<platform, commandvec, process_state, pid, child, handles,
                 command_stream, to_child, sent_ok, nsends, from_child,
                 pipe_output, received, response, sigterm, nbytes>>

\* usleep(wait_time) / Sleep(wait_time) is over: round the loop again.
wait_receivable_wake ==
  /\ pc = "sleep"
  /\ wait_receivable_test
  /\ UNCHANGED <<platform, commandvec, process_state, pid, child, handles,
                 command_stream, to_child, sent_ok, nsends, from_child,
                 pipe_output, received, response, sigterm, nbytes>>

----------------------------------------------------------------------------
\* Destructor.

dtor_posix ==
  \* fclose flushes what the stream still holds, then closes pipe_input[1]
  /\ to_child' = IF ReaderOpen THEN to_child \o command_stream ELSE to_child
  /\ command_stream' = <<>>
  /\ handles' = handles \ {"pipe_input[1]", "pipe_output[0]"}
  /\ sigterm' = <<pid>>
  /\ child' = IF child = "running" THEN "exited" ELSE child

dtor_win32 ==
  /\ handles' = handles \ {"child_std_OUT_Rd", "child_std_IN_Wr",
                           "hProcess", "hThread"}
  /\ UNCHANGED <<to_child, command_stream, sigterm, child>>

destroy ==
  /\ pc = "idle"
  /\ pc' = "destroyed"
  /\ IF platform = "win32" THEN dtor_win32 ELSE dtor_posix
  /\ ret' = [NoRet EXCEPT !.op = "~piped_processt", !.status = "returned"]
  /\ UNCHANGED <<platform, commandvec, op, process_state, pid, sent_ok,
                 nsends, from_child, pipe_output, received, response, timeout,
                 waited_time, nbytes>>

Next ==
  \/ piped_processt
  \/ \E message \in Messages : send(message)
  \/ receive
  \/ receive_read
  \/ receive_return
  \/ \E wait_time \in OptWaitTimes : can_receive(wait_time)
  \/ can_receive_now
  \/ wait_receive
  \/ poll_events
  \/ poll_timeout
  \/ poll_error
  \/ poll_wait
  \/ win_peek_true
  \/ win_sleep
  \/ win_loop_exit
  \/ wait_receivable
  \/ wait_receivable_wake
  \/ destroy
  \/ ChildWrite
  \/ ChildExit

Spec == Init /\ [][Next]_vars
----------------------------------------------------------------------------
\* C1: once process_state is STOPPED or ERRORED no step changes it, and
\* once the constructor has set a state it never is NOT_CREATED again.
C1_TerminalStatesStay ==
  [][/\ process_state \in {STOPPED, ERRORED} => process_state' = process_state
     /\ process_state # NOT_CREATED => process_state' # NOT_CREATED]_vars

\* An errored channel on which a later can_receive polled and returned true.
C1_Witness ==
  /\ process_state = ERRORED
  /\ pc = "idle"
  /\ ret.op = "can_receive" /\ ret.flag

\* C2: a channel in state CREATED results only from a non-empty command
\* whose child process was started; every other construction ends in an error.
C2_CreatedOnlyIfStarted ==
  process_state = CREATED => commandvec # <<>> /\ child # "none"

\* C3: send in a state other than CREATED returns ERRORED, attempts no
\* I/O, writes nothing to the stream or the pipe and leaves the state alone.
C3_SendOutsideCreated ==
  [][(process_state # CREATED /\ \E message \in Messages : send(message))
       => /\ ret'.op = "send" /\ ret'.status = ERRORED /\ ~ret'.flag
          /\ UNCHANGED <<to_child, command_stream, sent_ok, process_state>>]_vars

\* send returned ERRORED on an errored channel.
C3_Witness ==
  /\ process_state = ERRORED
  /\ ret.op = "send" /\ ret.status = ERRORED
  /\ nsends > 0
\* C4: send in state CREATED returns FAILED whenever the write or the
\* flush fails (nobody holds the read end of the pipe), and returns
\* SUCCEEDED only when the pipe took the whole message.
C4_SendFailedIffNotWritten ==
  [][(process_state = CREATED /\ \E message \in Messages : send(message))
       => /\ ~ReaderOpen => ret'.status = FAILED
          /\ ret'.status = SUCCEEDED => to_child' = to_child \o ret'.bytes]_vars

\* C5: when send has returned SUCCEEDED nothing is left in the parent's
\* stream buffer, and what the pipe took is the concatenation of the
\* messages sent with success, in the order of the calls.
C5_SucceededMeansDelivered ==
  (ret.op = "send" /\ ret.status = SUCCEEDED)
    => command_stream = <<>> /\ to_child = sent_ok

\* Any step of send or of receive (the call, a round of the read loop, the
\* return).
SendOrReceiveStep ==
  \/ \E message \in Messages : send(message)
  \/ receive
  \/ receive_read
  \/ receive_return

\* C6: no step of send or of receive changes process_state, whatever the
\* call returns.
C6_SendReceiveKeepState ==
  [][SendOrReceiveStep => process_state' = process_state]_vars

\* A send has been made and a receive returned bytes after having read to
\* the end of the stream of an exited child.
C6_Witness ==
  /\ nsends > 0
  /\ ret.op = "receive" /\ ret.status = "returned" /\ ret.bytes # <<>>
  /\ child = "exited" /\ nbytes = 0
  /\ process_state = CREATED

\* C7: receive called in a state other than CREATED ends in an invariant
\* violation: it reads nothing, consumes nothing and returns no bytes.
C7_ReceiveOutsideCreatedFailsLoudly ==
  [][(process_state # CREATED /\ receive)
       => /\ pc' = "aborted"
          /\ ret'.op = "receive" /\ ret'.status = "invariant_violation"
          /\ ret'.bytes = <<>>
          /\ UNCHANGED <<pipe_output, received, response, nbytes>>]_vars

\* receive was called on an errored channel with bytes waiting in the pipe.
C7_Witness ==
  /\ pc = "aborted" /\ op = "receive"
  /\ process_state = ERRORED
  /\ pipe_output # <<>>

\* C8: receive in state CREATED never waits for data to arrive: no read of
\* its loop blocks, on either platform.
C8_ReceiveNeverWaits ==
  ~(pc = "read" /\ process_state = CREATED /\ read_blocks)

IsPrefix(a, b) == Len(a) <= Len(b) /\ SubSeq(b, 1, Len(a)) = a

\* receive returned after a read that saw the end of the stream.
ReturnedAtEndOfStream ==
  /\ pc = "idle"
  /\ ret.op \in {"receive", "wait_receive"} /\ ret.status = "returned"
  /\ ~WriterOpen /\ nbytes = 0

\* C9: what the receive calls returned so far is a prefix of what the child
\* wrote (each byte at most once, in order); once the child has exited a
\* receive can always take a step and each step shortens the pipe or
\* returns; a receive that returned at the end of the stream has handed
\* out every byte the child wrote, and later ones return nothing.
C9_EachByteOnceInOrder ==
  /\ [](IsPrefix(received, from_child))
  /\ [](ReturnedAtEndOfStream => received = from_child)
  /\ []((pc = "read" /\ ~WriterOpen) => ENABLED (receive_read \/ receive_return))
  /\ [][(pc = "read" /\ ~WriterOpen)
          => pc' = "idle" \/ Len(pipe_output') < Len(pipe_output)]_vars
  /\ [][(receive_return /\ ~WriterOpen /\ received = from_child)
          => ret'.bytes = <<>>]_vars

\* Two receive calls after the child has exited: the first one drained
\* more than one chunk, the second one returned nothing.
C9_Witness ==
  /\ ReturnedAtEndOfStream
  /\ ret.bytes = <<>>
  /\ Len(received) > BUFSIZE
  /\ received = from_child

\* C10: a can_receive that finds a byte buffered in the inbound pipe, and
\* whose wait primitive reports no error, returns true with its next step,
\* whatever the timeout and the platform.
C10_DataMeansTrue ==
  [][(/\ pc = "poll" /\ op \in {"can_receive", "can_receive()"}
      /\ pipe_output # <<>>
      /\ pc' # pc \/ waited_time' # waited_time
      /\ ~poll_error)
       => pc' = "idle" /\ ret'.flag]_vars

\* C11: a can_receive with a positive timeout on a live channel whose
\* child never wrote a byte, and whose wait reports no error, returns false
\* and does so only when at least `timeout` has been waited.
C11_FalseOnlyAfterTimeout ==
  [][(/\ pc = "poll" /\ op = "can_receive"
      /\ timeout > 0
      /\ from_child = <<>> /\ WriterOpen
      /\ pc' = "idle"
      /\ ~poll_error)
       => ~ret'.flag /\ waited_time >= timeout]_vars

\* C12: can_receive(0) and can_receive() on the channel of a child that
\* was started never sleep or wait: no time passes inside them, with or
\* without data, on either platform.
C12_ZeroTimeoutNeverSleeps ==
  (/\ pc = "poll" /\ op \in {"can_receive", "can_receive()"}
   /\ timeout = 0
   /\ child # "none")
    => waited_time = 0

\* C13: when poll reports an error, can_receive sets ERRORED and returns
\* false; every other way out of the wait (a timeout, events, the _WIN32
\* loop) leaves process_state as it was.
C13_PollErrorSetsErrored ==
  [][/\ poll_error
          => /\ process_state' = ERRORED
             /\ pc' # "poll"
             /\ op \in {"can_receive", "can_receive()"}
                  => ret'.op = op /\ ~ret'.flag
     /\ (pc = "poll" /\ pc' # "poll" /\ ~poll_error)
          => process_state' = process_state]_vars

\* A can_receive on a created channel with a running child came back
\* false and left the channel errored.
C13_Witness ==
  /\ pc = "idle"
  /\ ret.op = "can_receive" /\ ~ret.flag
  /\ process_state = ERRORED
  /\ child = "running" /\ nsends = 0

\* C14: wait_receivable returns only when a byte is buffered in the
\* inbound pipe or process_state is not CREATED.
C14_ReturnsOnlyWhenReceivable ==
  [][(op = "wait_receivable" /\ pc # "idle" /\ pc' = "idle")
       => pipe_output # <<>> \/ process_state' # CREATED]_vars

ParentPipeEnds ==
  {"pipe_input[1]", "pipe_output[0]", "child_std_IN_Wr", "child_std_OUT_Rd"}

\* C16: after the teardown of a channel whose child was started both of
\* the parent's pipe ends are closed and a termination request for the
\* child has been issued, on either platform.
C16_TeardownReleasesAll ==
  (pc = "destroyed" /\ child # "none")
    => handles \cap ParentPipeEnds = {} /\ sigterm # <<>>

\* C17: the pid teardown hands to kill is that of a forked child, never
\* fork's failure value.
C17_KillOnlyTheChild ==
  sigterm # <<>> => sigterm[1] > 0

\* C18: a wait_receive running on a channel in state CREATED, its child
\* running, never ends in receive's invariant violation.
C18_WaitReceiveNeverViolates ==
  [][(op = "wait_receive" /\ process_state = CREATED /\ child = "running")
       => pc' # "aborted"]_vars

\* C19: when the constructor throws, no pipe end it opened is still open.
C19_FailedConstructionLeaksNothing ==
  pc = "thrown" => handles = {}

\* C20: once the constructor has returned, process_state is CREATED or
\* ERRORED, never STOPPED.
C20_NeverStopped ==
  pc \notin {"start", "thrown", "crashed"}
    => process_state \in {CREATED, ERRORED}

\* A wait_receive read to the end of the stream of an exited child and the
\* channel is still in state CREATED.
C20_Witness ==
  /\ pc = "idle"
  /\ ret.op = "wait_receive" /\ ret.status = "returned"
  /\ child = "exited" /\ nbytes = 0 /\ pipe_output = <<>>
  /\ from_child # <<>>
  /\ process_state = CREATED

====
